---- MODULE Spec2Model ----
(***************************************************************************)
(* Scheduling & publishing engine of PulseWorks-Marketing.                 *)
(*                                                                         *)
(* State: the rows of the tables the engine reads and writes               *)
(* (PublishingProfile, SocialConnection, ContentItem, ScheduleItem,        *)
(* AuditEvent), the BullMQ queue 'publish-posts', the position of every    *)
(* request handler and of every worker execution between two awaits, and   *)
(* the calls received by the posting provider.                             *)
(*                                                                         *)
(* Time is counted in quanta (the backoff delay of the queue is one); the  *)
(* calendar is scaled down: a day is DayLen quanta long and a month        *)
(* MonthDays days. The server runs on UTC; an account's timezone is        *)
(* Pacific/Auckland (half a day ahead) or UTC.                             *)
(*                                                                         *)
(* BullMQ is taken as documented: Queue.add with a jobId the queue already *)
(* holds adds nothing; a delayed job becomes active once its delay has     *)
(* passed; a processor that throws is retried after the backoff while      *)
(* attempts remain. Completed and failed jobs stay in the queue (the last  *)
(* 100 and 500 are kept, more than a run of the model produces).           *)
(*                                                                         *)
(* Database writes succeed on rows that exist; update of a missing row     *)
(* throws. auditEvent holds the POST_PUBLISHED and POST_FAILED rows only;  *)
(* the audit table may refuse any write (sinkOk), which logAuditEvent      *)
(* catches and logs. Every run receives at most MaxEvents requests and     *)
(* calls from outside (schedule, enqueue, cancel, connect, verify,         *)
(* disconnect, webhook, bulk delete). The foreign key from ScheduleItem to *)
(* ContentItem either cascades a delete or rejects it (cascade).           *)
(*                                                                         *)
(* prisma.$transaction runs at the default isolation of PostgreSQL, READ   *)
(* COMMITTED: the deleteMany of scheduleContent sees the rows committed    *)
(* when it runs, and the creates become visible at commit.                 *)
(*                                                                         *)
(* Spec is the seeded deployment with the whole engine. SpecScheduler      *)
(* runs the scheduling requests on the accounts, destinations and rules a  *)
(* tenant can have, SpecSlots one scheduleContent call on every posting    *)
(* rule, and SpecQuota the usage counter with the subscription webhook.    *)
(***************************************************************************)
EXTENDS Integers, Sequences, FiniteSets, Bags, TLC

\* ---------------------------------------------------------------- bounds
MaxTime == 5
DayLen == 2
MonthDays == 4
MaxEvents == 3
MaxPeriod == 2

\* ------------------------------------------------------ program constants
Attempts == 3
BackoffDelay == 1
Concurrency == 5

NULL == "null"
NoDate == -1
Platforms == {"FACEBOOK", "INSTAGRAM"}
Account == "test-account"

\* db/seed.ts: the two sample content items of the seeded account
ContentIds == {"c1", "c2"}
platformTargets == [c \in ContentIds |-> <<"FACEBOOK", "INSTAGRAM">>]
contentAccount == [c \in ContentIds |-> Account]

\* db/seed.ts: the posting rule of the seeded account
PostingRule == [daysOfWeek |-> {2, 4}, timeWindow |-> "MORNING", fixedTime |-> NoDate]

\* keys the provider hands out in generateProfileKey(`${accountId}-${platform}`)
NewProfileKey == [p \in Platforms |-> IF p = "FACEBOOK" THEN "new-fb-profile" ELSE "new-ig-profile"]

\* 'HH:MM' as quanta after local midnight, a day being DayLen quanta
TimeOfDay(hours, minutes) == ((hours * 60 + minutes) * DayLen) \div 1440

\* shared/constants.ts TIME_WINDOWS: '09:30', '13:00', '18:30'
TIME_WINDOWS == [MORNING |-> TimeOfDay(9, 30), AFTERNOON |-> TimeOfDay(13, 0),
                 EVENING |-> TimeOfDay(18, 30)]

VARIABLES
  now,                \* wall clock (new Date())
  socialConnection,   \* platform -> providerProfileId of the SocialConnection row
  publishingProfile,  \* the PublishingProfile row of the account
  contentItem,        \* content id -> status
  scheduleItem,       \* ScheduleItem rows: id -> row (the domain is the set of rows)
  nextId,             \* next ScheduleItem id
  created,            \* history: id -> providerProfileId written by scheduleItem.create
  sched,              \* scheduleContent requests in progress
  cancel,             \* the DELETE /:id request in progress
  jobs,               \* BullMQ queue 'publish-posts': sequence of jobs
  dispatched,         \* history: id -> enqueuePublishJob calls, firings of its delayed job
  calls,              \* history: createPost calls received by the provider
  count,              \* history: number of requests and calls received from outside so far
  auditEvent,         \* AuditEvent rows, a bag
  postingRule,        \* the PostingRule row of the account, NoRule when there is none
  account,            \* the Account row: plan, add-ons, timezone, billing period
  usageCounter,       \* the UsageCounter row of the account, NoCounter when there is none
  usage,              \* usage-tracking calls in progress
  bulk                \* the POST /bulk delete request in progress

\* the rows and calls of the quota ledger
ledger == <<account, usageCounter, usage>>

vars == <<now, socialConnection, publishingProfile, contentItem, scheduleItem, nextId,
          created, sched, cancel, jobs, dispatched, calls, count, auditEvent,
          postingRule, ledger, bulk>>

\* every request stores at most one ScheduleItem per content item and platform
MaxItems == MaxEvents * Cardinality(ContentIds) * Cardinality(Platforms)
ItemIds == 1..MaxItems

\* ------------------------------------------------------------------ helpers
Max(a, b) == IF a >= b THEN a ELSE b

RECURSIVE Pow2(_)
Pow2(n) == IF n <= 0 THEN 1 ELSE 2 * Pow2(n - 1)

RECURSIVE SortAsc(_)
SortAsc(S) ==
  IF S = {} THEN <<>>
  ELSE LET m == CHOOSE x \in S : \A y \in S : x <= y
       IN <<m>> \o SortAsc(S \ {m})

\* the data of an audit event: metadata.platform, metadata.contentId and
\* metadata.error are NULL when the caller does not pass them
AuditData(eventType, entityId, platform, contentId, error) ==
  [eventType |-> eventType, entityId |-> entityId, platform |-> platform,
   contentId |-> contentId, error |-> error]

\* the event types of which auditEvent keeps the rows
PostEvents == {"POST_PUBLISHED", "POST_FAILED"}

\* logAuditEvent letting the error of the sink through to its caller
logAuditEventRethrow(bag, data, sinkOk) ==
  [auditEvent |-> IF sinkOk /\ data.eventType \in PostEvents THEN bag (+) SetToBag({data}) ELSE bag,
   threw |-> ~sinkOk]

\* utils/audit.ts logAuditEvent: auditEvent.create in a try whose catch only logs;
\* sinkOk tells whether the create succeeds
logAuditEvent(bag, data, sinkOk) ==
  [auditEvent |-> IF sinkOk /\ data.eventType \in PostEvents THEN bag (+) SetToBag({data}) ELSE bag,
   threw |-> FALSE]

\* worker/index.ts 49-52, scheduler.ts 100-103: the profile id of a platform
ProfileIdFor(profile, platform) ==
  IF platform = "FACEBOOK" THEN profile.facebookProfileId ELSE profile.instagramProfileId

\* ------------------------------------------------------------ slot generator
startOfMonth(t) == ((t \div DayLen) \div MonthDays) * MonthDays * DayLen
endOfMonth(t) == startOfMonth(t) + MonthDays * DayLen - 1

\* Date.getDay() without the conversion of Sunday: 0 on a Sunday
getDaySundayZero(t) == ((t \div DayLen) + 1) % 7

\* Date.getDay() || 7 of the day holding instant t; day 0 of the model is a Monday
getDay(t) == LET d == ((t \div DayLen) + 1) % 7 IN IF d = 0 THEN 7 ELSE d

\* the zones of the accounts considered, and their offsets from UTC (+12:00, +00:00)
Timezones == {"Pacific/Auckland", "UTC"}
UtcOffset(timezone) == IF timezone = "Pacific/Auckland" THEN TimeOfDay(12, 0) ELSE 0

\* date-fns-tz: the instant at which the clock of `timezone` shows the fields of t,
\* and the fields the clock of `timezone` shows at instant t (the server runs on UTC)
zonedTimeToUtc(t, timezone) == t - UtcOffset(timezone)
utcToZonedTime(t, timezone) == t + UtcOffset(timezone)

\* the time of the slots taken from the time window alone
SlotTimeOfWindow(timeWindow, fixedTime) ==
  IF timeWindow \in DOMAIN TIME_WINDOWS THEN TIME_WINDOWS[timeWindow]
  ELSE TIME_WINDOWS.MORNING

\* scheduler.ts 169-170: the time of the slots, quanta after local midnight
SlotTime(timeWindow, fixedTime) ==
  IF fixedTime # NoDate THEN fixedTime
  ELSE IF timeWindow \in DOMAIN TIME_WINDOWS THEN TIME_WINDOWS[timeWindow]
  ELSE TIME_WINDOWS.MORNING

\* scheduler.ts 172-192: the days the loop visits, as midnights
LoopDays(startDate, endDate) ==
  {startOfMonth(startDate) + d * DayLen : d \in {x \in 0..MonthDays :
                                                    startOfMonth(startDate) + x * DayLen <= endDate}}

\* generateTimeSlots keeping a slot that is not before the current time
generateTimeSlotsNotBefore(startDate, endDate, daysOfWeek, timeWindow, fixedTime, timezone, nowT) ==
  LET time == SlotTime(timeWindow, fixedTime)
      slots == {zonedTimeToUtc(currentDate + time, timezone) :
                  currentDate \in {d \in LoopDays(startDate, endDate) : getDay(d) \in daysOfWeek}}
  IN SortAsc({slotTime \in slots : slotTime >= nowT})

generateTimeSlots(startDate, endDate, daysOfWeek, timeWindow, fixedTime, timezone, nowT) ==
  LET time == SlotTime(timeWindow, fixedTime)
      slots == {zonedTimeToUtc(currentDate + time, timezone) :
                  currentDate \in {d \in LoopDays(startDate, endDate) : getDay(d) \in daysOfWeek}}
  IN SortAsc({slotTime \in slots : slotTime > nowT})

\* ------------------------------------------------------------------- Init
\* no PostingRule row
NoRule == [daysOfWeek |-> {}, timeWindow |-> NULL, fixedTime |-> NoDate]

\* db/seed.ts 12-22: the seeded account; no subscription has set its billing period
SeedAccount == [plan |-> "GROWTH", postingAddon |-> TRUE, autopostAddon |-> FALSE,
                timezone |-> "Pacific/Auckland",
                currentPeriodStart |-> NoDate, currentPeriodEnd |-> NoDate]

\* no PublishingProfile row
NoProfile == [facebookProfileId |-> NULL, instagramProfileId |-> NULL,
              status |-> NULL, verifiedAt |-> FALSE]

NoRequest == [pc |-> "idle", contentItemIds |-> {}, startDate |-> NoDate, calledAt |-> NoDate,
              profile |-> [facebookProfileId |-> NULL, instagramProfileId |-> NULL],
              postingRule |-> NoRule, timezone |-> NULL, slots |-> <<>>,
              plan |-> <<>>, deleted |-> {}, result |-> "none", scheduled |-> 0]

\* no UsageCounter row (id 0)
NoCounter == [id |-> 0, staticUsed |-> 0, videoUsed |-> 0, autopostUsed |-> 0,
              periodStart |-> NoDate, periodEnd |-> NoDate]

\* the requests that may use the usage-tracking service at the same time
Clients == 1..2

\* a call of the usage-tracking service, or of the subscription webhook, that has
\* not started
NoUsage == [pc |-> "idle", kind |-> NULL, periodStart |-> NoDate, periodEnd |-> NoDate,
            counter |-> NoCounter, result |-> "none"]

\* no bulk request in progress
NoBulk == [pc |-> "idle", contentItemIds |-> {}, result |-> "none"]

NoCancel == [pc |-> "idle", id |-> 0, contentItemId |-> NULL, result |-> "none"]

Init ==
  /\ now = 0
  /\ socialConnection = [p \in Platforms |->
        IF p = "FACEBOOK" THEN "test-fb-profile" ELSE "test-ig-profile"]
  /\ publishingProfile = [facebookProfileId |-> "test-fb-profile",
                          instagramProfileId |-> "test-ig-profile",
                          status |-> "VERIFIED", verifiedAt |-> TRUE]
  /\ contentItem = [c \in ContentIds |-> IF c = "c1" THEN "APPROVED" ELSE "DRAFT"]
  /\ scheduleItem = <<>>
  /\ nextId = 1
  /\ created = <<>>
  /\ sched = [r \in 1..2 |-> NoRequest]
  /\ cancel = NoCancel
  /\ jobs = <<>>
  /\ dispatched = [i \in ItemIds |-> [enqueued |-> 0, fired |-> 0]]
  /\ calls = <<>>
  /\ count = 0
  /\ auditEvent = EmptyBag
  /\ postingRule = PostingRule
  /\ account = SeedAccount
  /\ usageCounter = NoCounter
  /\ usage = [c \in Clients |-> NoUsage]
  /\ bulk = NoBulk


\* ------------------------------------------- destination verification workflow
\* routes/usage.ts POST /connect: upsert of the SocialConnection of a platform
Connect(p) ==
  /\ count < MaxEvents
  /\ count' = count + 1
  /\ socialConnection[p] # NewProfileKey[p]
  /\ socialConnection' = [socialConnection EXCEPT ![p] = NewProfileKey[p]]
  /\ UNCHANGED <<bulk, postingRule, ledger, now, publishingProfile, contentItem, scheduleItem, nextId, created, sched,
                 cancel, jobs, dispatched, calls, auditEvent>>

\* routes/usage.ts POST /verify-destinations (body.confirmed): upsert of the profile
VerifyDestinations ==
  /\ count < MaxEvents
  /\ count' = count + 1
  /\ publishingProfile' = [facebookProfileId |-> socialConnection["FACEBOOK"],
                           instagramProfileId |-> socialConnection["INSTAGRAM"],
                           status |-> "VERIFIED", verifiedAt |-> TRUE]
  /\ publishingProfile' # publishingProfile
  /\ UNCHANGED <<bulk, postingRule, ledger, now, socialConnection, contentItem, scheduleItem, nextId, created, sched,
                 cancel, jobs, dispatched, calls, auditEvent>>

\* Disconnect with the frozen ids of the platform's schedule items cleared as well
DisconnectCascade(p) ==
  /\ count < MaxEvents
  /\ count' = count + 1
  /\ publishingProfile' =
       IF p = "FACEBOOK"
       THEN [publishingProfile EXCEPT !.facebookProfileId = NULL, !.status = "NEEDS_RECONNECT"]
       ELSE [publishingProfile EXCEPT !.instagramProfileId = NULL, !.status = "NEEDS_RECONNECT"]
  /\ publishingProfile # NoProfile
  /\ publishingProfile' # publishingProfile
  /\ scheduleItem' = [i \in DOMAIN scheduleItem |->
                        IF scheduleItem[i].platform = p
                        THEN [scheduleItem[i] EXCEPT !.providerProfileId = NULL]
                        ELSE scheduleItem[i]]
  /\ UNCHANGED <<bulk, postingRule, ledger, now, socialConnection, contentItem, nextId, created, sched,
                 cancel, jobs, dispatched, calls, auditEvent>>

\* routes/usage.ts DELETE /disconnect/:platform (updateMany: nothing without a profile row)
Disconnect(p) ==
  /\ count < MaxEvents
  /\ count' = count + 1
  /\ publishingProfile' =
       IF p = "FACEBOOK"
       THEN [publishingProfile EXCEPT !.facebookProfileId = NULL, !.status = "NEEDS_RECONNECT"]
       ELSE [publishingProfile EXCEPT !.instagramProfileId = NULL, !.status = "NEEDS_RECONNECT"]
  /\ publishingProfile # NoProfile
  /\ publishingProfile' # publishingProfile
  /\ UNCHANGED <<bulk, postingRule, ledger, now, socialConnection, contentItem, scheduleItem, nextId, created, sched,
                 cancel, jobs, dispatched, calls, auditEvent>>

\* ------------------------------------------------------------- Distributor
ContentOrder == <<"c1", "c2">>

\* scheduler.ts 90-93: the (content, platform) pairs in loop order
RECURSIVE Pairings(_, _)
Pairings(contents, i) ==
  IF i > Len(ContentOrder) THEN <<>>
  ELSE LET c == ContentOrder[i]
       IN (IF c \in contents
           THEN [k \in 1..Len(platformTargets[c]) |-> [contentItemId |-> c, platform |-> platformTargets[c][k]]]
           ELSE <<>>) \o Pairings(contents, i + 1)

\* the distribution loop taking a slot also for a pairing it skips
RECURSIVE DistributeSlotPerPairing(_, _, _, _, _)
DistributeSlotPerPairing(pairs, k, slots, slotIndex, profile) ==
  IF k > Len(pairs) THEN <<>>
  ELSE IF slotIndex > Len(slots) THEN DistributeSlotPerPairing(pairs, k + 1, slots, slotIndex, profile)
  ELSE LET providerProfileId == ProfileIdFor(profile, pairs[k].platform)
       IN IF providerProfileId = NULL
          THEN DistributeSlotPerPairing(pairs, k + 1, slots, slotIndex + 1, profile)
          ELSE <<[contentItemId |-> pairs[k].contentItemId,
                  platform |-> pairs[k].platform,
                  scheduledFor |-> slots[slotIndex],
                  providerProfileId |-> providerProfileId]>>
               \o DistributeSlotPerPairing(pairs, k + 1, slots, slotIndex + 1, profile)

\* scheduler.ts 88-119: the distribution loop
RECURSIVE Distribute(_, _, _, _, _)
Distribute(pairs, k, slots, slotIndex, profile) ==
  IF k > Len(pairs) THEN <<>>
  ELSE IF slotIndex > Len(slots) THEN Distribute(pairs, k + 1, slots, slotIndex, profile)
  ELSE LET providerProfileId == ProfileIdFor(profile, pairs[k].platform)
       IN IF providerProfileId = NULL
          THEN Distribute(pairs, k + 1, slots, slotIndex, profile)
          ELSE <<[contentItemId |-> pairs[k].contentItemId,
                  platform |-> pairs[k].platform,
                  scheduledFor |-> slots[slotIndex],
                  providerProfileId |-> providerProfileId]>>
               \o Distribute(pairs, k + 1, slots, slotIndex + 1, profile)

RequestInputs == {{"c1"}, {"c1", "c2"}}

\* the messages of the errors scheduleContent throws
NotVerified == "Publishing destinations must be verified before scheduling"
NoVerifiedAt == "Publishing profile not verified"
NoRules == "Posting rules not configured"
NoApproved == "No approved content items found"
\* Prisma on update of a row that is not there; on a create the sink refuses
RecordNotFound == "Record to update not found"
SinkError == "Audit sink error"
\* the status standing for a ContentItem row that was deleted
Deleted == "DELETED"
\* Prisma on a create whose content item is not there
ForeignKeyFailed == "Foreign key constraint failed"

\* the posting rule looked up before the profile
PreconditionRuleFirst(profile, rule) ==
  IF rule = NoRule THEN NoRules
  ELSE IF profile = NoProfile \/ profile.status # "VERIFIED" THEN NotVerified
  ELSE IF ~profile.verifiedAt THEN NoVerifiedAt
  ELSE "none"

\* scheduler.ts 24-44: the error of steps 1 and 2, "none" when they pass
Precondition(profile, rule) ==
  IF profile = NoProfile \/ profile.status # "VERIFIED" THEN NotVerified
  ELSE IF ~profile.verifiedAt THEN NoVerifiedAt
  ELSE IF rule = NoRule THEN NoRules
  ELSE "none"

\* routes/brief.ts 349-355, middleware/auth.ts requirePostingAddon, scheduler.ts 24-52:
\* the add-on check of the route, then steps 1 to 3 of scheduleContent
SchedVerify(r, ids) ==
  /\ count < MaxEvents
  /\ count' = count + 1
  /\ sched[r].pc = "idle"
  /\ r = 1 \/ sched[1].pc # "idle"
  /\ IF ~account.postingAddon
     THEN sched' = [sched EXCEPT ![r] = [NoRequest EXCEPT !.result = "Posting addon required"]]
     ELSE IF Precondition(publishingProfile, postingRule) # "none"
     THEN sched' = [sched EXCEPT ![r] = [NoRequest EXCEPT
                       !.result = Precondition(publishingProfile, postingRule)]]
     ELSE sched' = [sched EXCEPT ![r] = [NoRequest EXCEPT
                       !.pc = "load", !.contentItemIds = ids, !.calledAt = now,
                       !.profile = [facebookProfileId |-> publishingProfile.facebookProfileId,
                                    instagramProfileId |-> publishingProfile.instagramProfileId],
                       !.postingRule = postingRule,
                       !.timezone = account.timezone]]
  /\ UNCHANGED <<bulk, postingRule, ledger, now, socialConnection, publishingProfile, contentItem, scheduleItem, nextId,
                 created, cancel, jobs, dispatched, calls, auditEvent>>

\* scheduler.ts 54-119: steps 4 to 6, the content items, the slots, the distribution
SchedLoad(r) ==
  /\ sched[r].pc = "load"
  /\ LET contentItems == {c \in sched[r].contentItemIds :
                            contentAccount[c] = Account /\ contentItem[c] = "APPROVED"}
         startDate == IF sched[r].startDate = NoDate THEN now ELSE sched[r].startDate
         rule == sched[r].postingRule
         slots == generateTimeSlots(startDate, endOfMonth(startDate), rule.daysOfWeek,
                                    rule.timeWindow, rule.fixedTime, sched[r].timezone, now)
     IN IF contentItems = {}
        THEN sched' = [sched EXCEPT ![r] = [NoRequest EXCEPT !.result = NoApproved]]
        ELSE sched' = [sched EXCEPT ![r].pc = "txn", ![r].slots = slots,
                          ![r].plan = Distribute(Pairings(contentItems, 1), 1, slots, 1, sched[r].profile)]
  /\ UNCHANGED <<bulk, postingRule, ledger, now, socialConnection, publishingProfile, contentItem, scheduleItem, nextId,
                 created, cancel, jobs, dispatched, calls, count, auditEvent>>

\* scheduler.ts 122-129: the transaction begins; deleteMany marks the rows it finds,
\* which are the committed ones (PostgreSQL runs it READ COMMITTED)
SchedDeleteMany(r) ==
  /\ sched[r].pc = "txn"
  /\ sched' = [sched EXCEPT ![r].pc = "commit",
                  ![r].deleted = {i \in DOMAIN scheduleItem :
                                    /\ scheduleItem[i].contentItemId \in sched[r].contentItemIds
                                    /\ scheduleItem[i].accountId = Account}]
  /\ UNCHANGED <<bulk, postingRule, ledger, now, socialConnection, publishingProfile, contentItem,
                 scheduleItem, nextId, created, cancel, jobs, dispatched, calls, count, auditEvent>>

\* a failed transaction whose deleteMany stays in effect
KeptRowsNoRollback(rows, deleted, failed) == DOMAIN rows \ deleted

\* prisma.$transaction: the rows left by the deleteMany of a transaction, which is
\* undone when a later statement of the transaction fails
KeptRows(rows, deleted, failed) == IF failed THEN DOMAIN rows ELSE DOMAIN rows \ deleted

\* scheduler.ts 131-155: the creates and updates of step 7, the commit, and the return;
\* a create for a content item that was deleted meanwhile fails and the transaction
\* rolls back. routes/brief.ts 359-367: the audit event of the route and the response
SchedCommit(r, sinkOk) ==
  /\ sched[r].pc = "commit"
  /\ LET plan == sched[r].plan
         failed == \E k \in 1..Len(plan) : contentItem[plan[k].contentItemId] = Deleted
         kept == KeptRows(scheduleItem, sched[r].deleted, failed)
         newIds == nextId..(nextId + Len(plan) - 1)
         row(i) == [accountId |-> Account,
                    contentItemId |-> plan[i - nextId + 1].contentItemId,
                    platform |-> plan[i - nextId + 1].platform,
                    scheduledFor |-> plan[i - nextId + 1].scheduledFor,
                    providerProfileId |-> plan[i - nextId + 1].providerProfileId,
                    providerJobId |-> 0,
                    status |-> "QUEUED",
                    errorMessage |-> NULL]
         audit == logAuditEvent(auditEvent, AuditData("POSTS_SCHEDULED", NULL, NULL, NULL, NULL), sinkOk)
     IN IF failed
        THEN /\ sched' = [sched EXCEPT ![r] = [NoRequest EXCEPT !.result = ForeignKeyFailed]]
             /\ scheduleItem' = [i \in kept |-> scheduleItem[i]]
             /\ UNCHANGED <<created, contentItem, nextId, auditEvent>>
        ELSE /\ scheduleItem' = [i \in kept \cup newIds |->
                                   IF i \in newIds THEN row(i) ELSE scheduleItem[i]]
             /\ created' = [i \in DOMAIN created \cup newIds |->
                               IF i \in newIds THEN row(i).providerProfileId ELSE created[i]]
             /\ contentItem' = [c \in ContentIds |->
                                   IF \E k \in 1..Len(plan) : plan[k].contentItemId = c
                                   THEN "SCHEDULED" ELSE contentItem[c]]
             /\ nextId' = nextId + Len(plan)
             /\ auditEvent' = audit.auditEvent
             /\ sched' = [sched EXCEPT ![r] = [NoRequest EXCEPT
                             !.result = IF audit.threw THEN SinkError ELSE "ok",
                             !.scheduled = Len(plan)]]
  /\ UNCHANGED <<bulk, postingRule, ledger, now, socialConnection, publishingProfile, cancel, jobs, dispatched,
                 calls, count>>

\* ---------------------------------------------------------------- Dispatcher
JobKey(scheduleItemId) == <<"publish", scheduleItemId>>

NoSnapshot == [accountId |-> NULL, contentItemId |-> NULL, platform |-> NULL,
               scheduledFor |-> 0, providerProfileId |-> NULL, providerJobId |-> 0,
               status |-> NULL, errorMessage |-> NULL]

NoResponse == [id |-> 0, status |-> NULL, error |-> NULL]

\* enqueuePublishJob without the jobId option: every add is a new job
enqueuePublishJobNoJobId(queue, scheduleItemId, scheduledFor, nowT) ==
  LET delay == Max(0, scheduledFor - nowT)
  IN Append(queue, [jobId |-> <<"auto", Len(queue) + 1>>, scheduleItemId |-> scheduleItemId,
                    fireAt |-> nowT + delay, state |-> "delayed", attemptsMade |-> 0,
                    pc |-> "none", scheduleItem |-> NoSnapshot,
                    expectedProfileId |-> NULL, response |-> NoResponse,
                    error |-> NULL, failedReason |-> NULL])

\* services/queue.ts enqueuePublishJob; Queue.add ignores a jobId the queue already holds
enqueuePublishJob(queue, scheduleItemId, scheduledFor, nowT) ==
  LET delay == Max(0, scheduledFor - nowT)
  IN IF \E j \in 1..Len(queue) : queue[j].jobId = JobKey(scheduleItemId)
     THEN queue
     ELSE Append(queue, [jobId |-> JobKey(scheduleItemId), scheduleItemId |-> scheduleItemId,
                         fireAt |-> nowT + delay, state |-> "delayed", attemptsMade |-> 0,
                         pc |-> "none", scheduleItem |-> NoSnapshot,
                         expectedProfileId |-> NULL, response |-> NoResponse,
                         error |-> NULL, failedReason |-> NULL])

\* a caller of enqueuePublishJob for a stored ScheduleItem
Enqueue(id) ==
  /\ id \in DOMAIN scheduleItem
  /\ count < MaxEvents
  /\ count' = count + 1
  /\ jobs' = enqueuePublishJob(jobs, id, scheduleItem[id].scheduledFor, now)
  /\ dispatched' = [dispatched EXCEPT ![id].enqueued = @ + 1]
  /\ UNCHANGED <<bulk, postingRule, ledger, now, socialConnection, publishingProfile, contentItem, scheduleItem, nextId,
                 created, sched, cancel, calls, auditEvent>>

\* the wall clock advances
Tick ==
  /\ now < MaxTime
  /\ now' = now + 1
  /\ UNCHANGED <<bulk, postingRule, ledger, socialConnection, publishingProfile, contentItem, scheduleItem, nextId, created,
                 sched, cancel, jobs, dispatched, calls, count, auditEvent>>


\* ------------------------------------------------------------- Publish Worker
Active == {j \in 1..Len(jobs) : jobs[j].state = "active"}

\* BullMQ moves a delayed job to active once its delay has passed and a slot of
\* the worker is free (worker/index.ts 146-149)
Fire(j) ==
  /\ j \in 1..Len(jobs)
  /\ jobs[j].state = "delayed"
  /\ jobs[j].fireAt <= now
  /\ Cardinality(Active) < Concurrency
  /\ jobs' = [jobs EXCEPT ![j].state = "active", ![j].pc = "load"]
  /\ dispatched' = IF jobs[j].attemptsMade = 0
                   THEN [dispatched EXCEPT ![jobs[j].scheduleItemId].fired = @ + 1]
                   ELSE dispatched
  /\ UNCHANGED <<bulk, postingRule, ledger, now, socialConnection, publishingProfile, contentItem, scheduleItem, nextId,
                 created, sched, cancel, calls, count, auditEvent>>

\* moveToFailed without the attempts ceiling: a failed attempt is always retried
moveToFailedAlwaysRetry(job, reason, nowT) ==
  LET n == job.attemptsMade + 1
  IN [job EXCEPT !.attemptsMade = n, !.pc = "none", !.scheduleItem = NoSnapshot,
                 !.expectedProfileId = NULL, !.response = NoResponse, !.error = NULL,
                 !.failedReason = reason, !.state = "delayed",
                 !.fireAt = nowT + BackoffDelay * Pow2(n - 1)]

\* BullMQ on a processor that threw: retry after the exponential backoff while
\* attempts remain (services/queue.ts 20-25), else the job is failed
moveToFailed(job, reason, nowT) ==
  LET n == job.attemptsMade + 1
      base == [job EXCEPT !.attemptsMade = n, !.pc = "none", !.scheduleItem = NoSnapshot,
                          !.expectedProfileId = NULL,
                          !.response = NoResponse, !.error = NULL, !.failedReason = reason]
  IN IF n < Attempts
     THEN [base EXCEPT !.state = "delayed", !.fireAt = nowT + BackoffDelay * Pow2(n - 1)]
     ELSE [base EXCEPT !.state = "failed"]

\* BullMQ on a processor that returned
moveToCompleted(job) ==
  [job EXCEPT !.attemptsMade = @ + 1, !.state = "completed", !.pc = "none",
              !.scheduleItem = NoSnapshot, !.expectedProfileId = NULL,
              !.response = NoResponse, !.error = NULL]

\* the messages of the errors the processor throws
ItemNotFound == "Schedule item not found"
AccountMismatch == "Account mismatch - security violation"
ProfileMismatch == "Provider profile mismatch - destinations may have changed"
ProviderError == "Ayrshare API error"

\* a lookup that falls back on another row when the id is not there
findUniqueOrFirst(rows, id) ==
  IF id \in DOMAIN rows THEN rows[id]
  ELSE IF DOMAIN rows # {} THEN rows[CHOOSE i \in DOMAIN rows : TRUE]
  ELSE NoSnapshot

\* prisma.scheduleItem.findUnique({ where: { id } }): the row, or none
findUnique(rows, id) == IF id \in DOMAIN rows THEN rows[id] ELSE NoSnapshot

\* worker/index.ts 22-38: load the schedule item, ownership check
WorkerLoad(j) ==
  /\ j \in 1..Len(jobs)
  /\ jobs[j].pc = "load"
  /\ LET item == findUnique(scheduleItem, jobs[j].scheduleItemId)
     IN IF item = NoSnapshot
        THEN jobs' = [jobs EXCEPT ![j] = moveToFailed(@, ItemNotFound, now)]
        ELSE IF contentAccount[item.contentItemId] # item.accountId
        THEN jobs' = [jobs EXCEPT ![j] = moveToFailed(@, AccountMismatch, now)]
        ELSE jobs' = [jobs EXCEPT ![j].scheduleItem = item, ![j].pc = "profile"]
  /\ UNCHANGED <<bulk, postingRule, ledger, now, socialConnection, publishingProfile, contentItem, scheduleItem, nextId,
                 created, sched, cancel, dispatched, calls, count, auditEvent>>

\* worker/index.ts 40-56: the provider profile check
\* the profile check left out
ProfileMatchesAlways(item, expectedProfileId) == TRUE

ProfileMatches(item, expectedProfileId) == item.providerProfileId = expectedProfileId

WorkerVerifyProfile(j) ==
  /\ j \in 1..Len(jobs)
  /\ jobs[j].pc = "profile"
  /\ LET expectedProfileId == ProfileIdFor(publishingProfile, jobs[j].scheduleItem.platform)
     IN IF ~ProfileMatches(jobs[j].scheduleItem, expectedProfileId)
        THEN jobs' = [jobs EXCEPT ![j] = moveToFailed(@, ProfileMismatch, now)]
        ELSE jobs' = [jobs EXCEPT ![j].pc = "post", ![j].expectedProfileId = expectedProfileId]
  /\ UNCHANGED <<bulk, postingRule, ledger, now, socialConnection, publishingProfile, contentItem, scheduleItem, nextId,
                 created, sched, cancel, dispatched, calls, count, auditEvent>>

\* what ayrshareClient.createPost can do: a response with a successful post for
\* the platform, a response with an error, a response with neither, a throw
ProviderOutcomes == {"success", "error", "noresult", "throw"}

\* the live profile id sent instead of the frozen one
PostProfileKeyLive(job, profile) == ProfileIdFor(profile, job.scheduleItem.platform)

\* worker/index.ts 71-76: the destination sent to the provider
PostProfileKey(job, profile) == job.scheduleItem.providerProfileId

\* worker/index.ts 69-79: createPost
WorkerPost(j, outcome) ==
  /\ j \in 1..Len(jobs)
  /\ jobs[j].pc = "post"
  /\ calls' = Append(calls, [scheduleItemId |-> jobs[j].scheduleItemId,
                             profileKey |-> PostProfileKey(jobs[j], publishingProfile),
                             live |-> ProfileIdFor(publishingProfile, jobs[j].scheduleItem.platform),
                             expected |-> jobs[j].expectedProfileId,
                             outcome |-> outcome])
  /\ IF outcome = "throw"
     THEN jobs' = [jobs EXCEPT ![j].pc = "catch", ![j].error = ProviderError]
     ELSE jobs' = [jobs EXCEPT ![j].pc = "record",
                     ![j].response = [id |-> Len(calls) + 1,
                                      status |-> IF outcome = "noresult" THEN NULL ELSE outcome,
                                      error |-> IF outcome = "error" THEN "provider error" ELSE NULL]]
  /\ UNCHANGED <<bulk, postingRule, ledger, now, socialConnection, publishingProfile, contentItem, scheduleItem, nextId,
                 created, sched, cancel, dispatched, count, auditEvent>>

\* worker/index.ts 81-90: scheduleItem.update with the result (throws on a missing row)
WorkerRecord(j) ==
  /\ j \in 1..Len(jobs)
  /\ jobs[j].pc = "record"
  /\ LET id == jobs[j].scheduleItemId
         response == jobs[j].response
     IN IF id \notin DOMAIN scheduleItem
        THEN /\ jobs' = [jobs EXCEPT ![j].pc = "catch", ![j].error = RecordNotFound]
             /\ UNCHANGED scheduleItem
        ELSE /\ scheduleItem' = [scheduleItem EXCEPT
                   ![id].providerJobId = response.id,
                   ![id].status = IF response.status = "success" THEN "PUBLISHED" ELSE "FAILED",
                   ![id].errorMessage = IF response.error # NULL THEN response.error ELSE @]
             /\ jobs' = [jobs EXCEPT ![j].pc = "finalize"]
  /\ UNCHANGED <<bulk, postingRule, ledger, now, socialConnection, publishingProfile, contentItem, nextId,
                 created, sched, cancel, dispatched, calls, count, auditEvent>>

\* worker/index.ts 92-97: findMany of the content's schedule items
WorkerFindAll(j) ==
  /\ j \in 1..Len(jobs)
  /\ jobs[j].pc = "finalize"
  /\ LET item == jobs[j].scheduleItem
         allSchedules == {i \in DOMAIN scheduleItem : scheduleItem[i].contentItemId = item.contentItemId}
         allPublished == \A i \in allSchedules : scheduleItem[i].status = "PUBLISHED"
     IN jobs' = [jobs EXCEPT ![j].pc = IF allPublished THEN "flip" ELSE "audit"]
  /\ UNCHANGED <<bulk, postingRule, ledger, now, socialConnection, publishingProfile, contentItem, scheduleItem,
                 nextId, created, sched, cancel, dispatched, calls, count, auditEvent>>

\* worker/index.ts 99-119: all published => content published (throws on a missing
\* row); audit; the job completes
WorkerFinalize(j, sinkOk) ==
  /\ j \in 1..Len(jobs)
  /\ jobs[j].pc \in {"flip", "audit"}
  /\ LET item == jobs[j].scheduleItem
         audit == logAuditEvent(auditEvent,
                     AuditData(IF jobs[j].response.status = "success" THEN "POST_PUBLISHED" ELSE "POST_FAILED",
                               jobs[j].scheduleItemId, item.platform, item.contentItemId, NULL),
                     sinkOk)
     IN IF jobs[j].pc = "flip" /\ contentItem[item.contentItemId] = Deleted
        THEN /\ jobs' = [jobs EXCEPT ![j].pc = "catch", ![j].error = RecordNotFound]
             /\ UNCHANGED <<contentItem, auditEvent>>
        ELSE /\ contentItem' = IF jobs[j].pc = "flip"
                               THEN [contentItem EXCEPT ![item.contentItemId] = "PUBLISHED"]
                               ELSE contentItem
             /\ auditEvent' = audit.auditEvent
             /\ jobs' = IF audit.threw
                        THEN [jobs EXCEPT ![j].pc = "catch", ![j].error = SinkError]
                        ELSE [jobs EXCEPT ![j] = moveToCompleted(@)]
  /\ UNCHANGED <<bulk, postingRule, ledger, now, socialConnection, publishingProfile, scheduleItem, nextId,
                 created, sched, cancel, dispatched, calls, count>>

\* worker/index.ts 120-144: the catch block; its own update throws on a missing row
WorkerCatch(j, sinkOk) ==
  /\ j \in 1..Len(jobs)
  /\ jobs[j].pc = "catch"
  /\ LET id == jobs[j].scheduleItemId
         audit == logAuditEvent(auditEvent,
                     AuditData("POST_FAILED", id, jobs[j].scheduleItem.platform, NULL, jobs[j].error),
                     sinkOk)
     IN IF id \notin DOMAIN scheduleItem
        THEN /\ jobs' = [jobs EXCEPT ![j] = moveToFailed(@, RecordNotFound, now)]
             /\ UNCHANGED <<scheduleItem, auditEvent>>
        ELSE /\ scheduleItem' = [scheduleItem EXCEPT ![id].status = "FAILED",
                                                     ![id].errorMessage = jobs[j].error]
             /\ auditEvent' = audit.auditEvent
             /\ jobs' = [jobs EXCEPT ![j] = moveToFailed(@, IF audit.threw THEN SinkError ELSE jobs[j].error, now)]
  /\ UNCHANGED <<bulk, postingRule, ledger, now, socialConnection, publishingProfile, contentItem, nextId,
                 created, sched, cancel, dispatched, calls, count>>

\* --------------------------------------------------------- provider webhook
WebhookStatuses == {"success", "error", "other"}

\* POST /ayrshare webhook handler: body.id is a job id the provider issued
AyrshareWebhook(id, status, sinkOk) ==
  /\ count < MaxEvents
  /\ id \in 1..Len(calls)
  /\ calls[id].outcome # "throw"
  /\ count' = count + 1
  /\ LET found == {i \in DOMAIN scheduleItem : scheduleItem[i].providerJobId = id}
     IN IF found = {}
        THEN UNCHANGED <<scheduleItem, auditEvent>>
        ELSE LET i == CHOOSE x \in found : TRUE
             IN /\ scheduleItem' =
                     IF status = "success" THEN [scheduleItem EXCEPT ![i].status = "PUBLISHED"]
                     ELSE IF status = "error"
                     THEN [scheduleItem EXCEPT ![i].status = "FAILED", ![i].errorMessage = "Unknown error"]
                     ELSE scheduleItem
                /\ auditEvent' = logAuditEvent(auditEvent,
                                    AuditData(IF status = "success" THEN "POST_PUBLISHED" ELSE "POST_FAILED",
                                              i, scheduleItem[i].platform, NULL, NULL),
                                    sinkOk).auditEvent
  /\ UNCHANGED <<bulk, postingRule, ledger, now, socialConnection, publishingProfile, contentItem, nextId,
                 created, sched, cancel, jobs, dispatched, calls>>

\* ------------------------------------------------------------ cancelSchedule
\* routes/brief.ts 374-391: find the item, refuse a published one
CancelFind(id) ==
  /\ count < MaxEvents
  /\ count' = count + 1
  /\ cancel.pc = "idle"
  /\ id \in 1..(nextId - 1)
  /\ IF id \notin DOMAIN scheduleItem
     THEN cancel' = [NoCancel EXCEPT !.result = "Schedule item not found"]
     ELSE IF scheduleItem[id].status = "PUBLISHED"
     THEN cancel' = [NoCancel EXCEPT !.result = "Cannot cancel published post"]
     ELSE cancel' = [NoCancel EXCEPT !.pc = "update", !.id = id,
                                     !.contentItemId = scheduleItem[id].contentItemId]
  /\ UNCHANGED <<bulk, postingRule, ledger, now, socialConnection, publishingProfile, contentItem, scheduleItem, nextId,
                 created, sched, jobs, dispatched, calls, auditEvent>>

\* routes/brief.ts 393-396: status CANCELLED (throws on a missing row)
CancelUpdate ==
  /\ cancel.pc = "update"
  /\ IF cancel.id \notin DOMAIN scheduleItem
     THEN /\ cancel' = [NoCancel EXCEPT !.result = RecordNotFound]
          /\ UNCHANGED scheduleItem
     ELSE /\ scheduleItem' = [scheduleItem EXCEPT ![cancel.id].status = "CANCELLED"]
          /\ cancel' = [cancel EXCEPT !.pc = "content"]
  /\ UNCHANGED <<bulk, postingRule, ledger, now, socialConnection, publishingProfile, contentItem, nextId,
                 created, sched, jobs, dispatched, calls, count, auditEvent>>

\* routes/brief.ts 398-421: content back to APPROVED when nothing is left queued
\* (throws on a missing row); the audit event and the response
CancelContent(sinkOk) ==
  /\ cancel.pc = "content"
  /\ LET remainingSchedules == Cardinality({i \in DOMAIN scheduleItem :
                                  /\ scheduleItem[i].contentItemId = cancel.contentItemId
                                  /\ scheduleItem[i].status \in {"QUEUED", "SCHEDULED"}})
         audit == logAuditEvent(auditEvent, AuditData("SCHEDULE_CANCELLED", cancel.id, NULL, NULL, NULL), sinkOk)
     IN IF remainingSchedules = 0 /\ contentItem[cancel.contentItemId] = Deleted
        THEN /\ cancel' = [NoCancel EXCEPT !.result = RecordNotFound]
             /\ UNCHANGED <<contentItem, auditEvent>>
        ELSE /\ contentItem' = IF remainingSchedules = 0
                               THEN [contentItem EXCEPT ![cancel.contentItemId] = "APPROVED"]
                               ELSE contentItem
             /\ auditEvent' = audit.auditEvent
             /\ cancel' = [NoCancel EXCEPT !.result = IF audit.threw THEN SinkError ELSE "ok"]
  /\ UNCHANGED <<bulk, postingRule, ledger, now, socialConnection, publishingProfile, scheduleItem, nextId,
                 created, sched, jobs, dispatched, calls, count>>

\* --------------------------------------------------------------- bulk delete
\* content routes POST /bulk, action 'delete': deleteMany of the schedule items
BulkDeleteItems(ids) ==
  /\ count < MaxEvents
  /\ count' = count + 1
  /\ bulk.pc = "idle"
  /\ scheduleItem' = [i \in {x \in DOMAIN scheduleItem :
                               ~(scheduleItem[x].contentItemId \in ids /\ scheduleItem[x].accountId = Account)}
                        |-> scheduleItem[i]]
  /\ bulk' = [NoBulk EXCEPT !.pc = "content", !.contentItemIds = ids]
  /\ UNCHANGED <<postingRule, ledger, now, socialConnection, publishingProfile, contentItem, nextId,
                 created, sched, cancel, jobs, dispatched, calls, auditEvent>>

\* POST /bulk, action 'delete': deleteMany of the content items. Schedule items
\* created for them since the first statement are deleted with them when the
\* relation cascades, and make the statement fail when it restricts
BulkDeleteContent(cascade) ==
  /\ bulk.pc = "content"
  /\ LET ids == {c \in bulk.contentItemIds : contentAccount[c] = Account}
         referencing == {i \in DOMAIN scheduleItem : scheduleItem[i].contentItemId \in ids}
     IN IF referencing # {} /\ ~cascade
        THEN /\ bulk' = [NoBulk EXCEPT !.result = ForeignKeyFailed]
             /\ UNCHANGED <<scheduleItem, contentItem>>
        ELSE /\ scheduleItem' = [i \in DOMAIN scheduleItem \ referencing |-> scheduleItem[i]]
             /\ contentItem' = [c \in ContentIds |-> IF c \in ids THEN Deleted ELSE contentItem[c]]
             /\ bulk' = [NoBulk EXCEPT !.result = "ok"]
  /\ UNCHANGED <<postingRule, ledger, now, socialConnection, publishingProfile, nextId,
                 created, sched, cancel, jobs, dispatched, calls, count, auditEvent>>

\* ------------------------------------------------------------ specification
Next ==
  \/ Tick
  \/ \E p \in Platforms : Connect(p)
  \/ VerifyDestinations
  \/ \E p \in Platforms : Disconnect(p)
  \/ \E r \in 1..2, ids \in RequestInputs : SchedVerify(r, ids)
  \/ \E r \in 1..2 : SchedLoad(r)
  \/ \E r \in 1..2 : SchedDeleteMany(r)
  \/ \E r \in 1..2, sinkOk \in BOOLEAN : SchedCommit(r, sinkOk)
  \/ \E id \in ItemIds : Enqueue(id)
  \/ \E j \in DOMAIN jobs : Fire(j)
  \/ \E j \in DOMAIN jobs : WorkerLoad(j)
  \/ \E j \in DOMAIN jobs : WorkerVerifyProfile(j)
  \/ \E j \in DOMAIN jobs, o \in ProviderOutcomes : WorkerPost(j, o)
  \/ \E j \in DOMAIN jobs : WorkerRecord(j)
  \/ \E j \in DOMAIN jobs : WorkerFindAll(j)
  \/ \E j \in DOMAIN jobs, sinkOk \in BOOLEAN : WorkerFinalize(j, sinkOk)
  \/ \E j \in DOMAIN jobs, sinkOk \in BOOLEAN : WorkerCatch(j, sinkOk)
  \/ \E id \in DOMAIN calls, s \in WebhookStatuses, sinkOk \in BOOLEAN : AyrshareWebhook(id, s, sinkOk)
  \/ \E id \in ItemIds : CancelFind(id)
  \/ CancelUpdate
  \/ \E sinkOk \in BOOLEAN : CancelContent(sinkOk)
  \/ \E ids \in RequestInputs : BulkDeleteItems(ids)
  \/ \E cascade \in BOOLEAN : BulkDeleteContent(cascade)

Spec == Init /\ [][Next]_vars

\* --------------------------------------------------------------- Quota Ledger
\* shared/constants.ts 4-30
PLAN_LIMITS ==
  [STARTER |-> [staticPostsPerMonth |-> 8, videosPerMonth |-> 0, autoposting |-> FALSE],
   GROWTH |-> [staticPostsPerMonth |-> 12, videosPerMonth |-> 4, autoposting |-> TRUE],
   PRO |-> [staticPostsPerMonth |-> 30, videosPerMonth |-> 16, autoposting |-> TRUE]]
STARTER_AUTOPOST_CAP == 8

\* what a request consumes: a static post, a video, an auto-post
Kinds == {"STATIC", "VIDEO", "AUTOPOST"}

\* the billing periods the payment provider reports, by number
Periods == 0..MaxPeriod
PeriodStart(k) == k * MonthDays * DayLen
PeriodEnd(k) == (k + 1) * MonthDays * DayLen

BillingNotSet == "Billing period not set - subscription may not be active"

\* usageTracking.ts 88-101, 133: the count the check compares, and its limit
Used(counter, kind) ==
  IF kind = "STATIC" THEN counter.staticUsed
  ELSE IF kind = "VIDEO" THEN counter.videoUsed
  ELSE counter.autopostUsed

Limit(plan, kind) ==
  IF kind = "STATIC" THEN PLAN_LIMITS[plan].staticPostsPerMonth
  ELSE IF kind = "VIDEO" THEN PLAN_LIMITS[plan].videosPerMonth
  ELSE STARTER_AUTOPOST_CAP

\* usageTracking.ts 32-36: the stored counter is the one of the account's period
CounterMatches(acct, counter) ==
  /\ counter # NoCounter
  /\ counter.periodStart = acct.currentPeriodStart
  /\ counter.periodEnd = acct.currentPeriodEnd

\* usageTracking.ts 41-58, part_004 572-589: the counter after the upsert
Upsert(counter, periodStart, periodEnd) ==
  [id |-> 1, staticUsed |-> 0, videoUsed |-> 0, autopostUsed |-> 0,
   periodStart |-> periodStart, periodEnd |-> periodEnd]

\* usageTracking.ts 89, 96, 133: the comparison of the check
WithinLimit(counter, plan, kind) == ~(Used(counter, kind) >= Limit(plan, kind))

\* getUsageCounter has returned `counter` to call c: the check compares and
\* answers, the increment goes on to its update
Returned(c, counter) ==
  IF usage[c].pc \in {"check", "checkUpsert"}
  THEN IF WithinLimit(counter, account.plan, usage[c].kind)
       THEN [usage EXCEPT ![c].pc = "allowed", ![c].counter = counter, ![c].result = "allowed"]
       ELSE [usage EXCEPT ![c] = [NoUsage EXCEPT !.kind = usage[c].kind, !.result = "denied"]]
  ELSE [usage EXCEPT ![c].pc = "update", ![c].counter = counter]

\* usageTracking.ts 64-86, 110-132: canCreateContent and canAutopost up to the
\* call of getUsageCounter
UsageCheck(c, kind) ==
  /\ count < MaxEvents
  /\ count' = count + 1
  /\ usage[c].pc = "idle"
  /\ LET limits == PLAN_LIMITS[account.plan]
         answer(result) == [usage EXCEPT ![c] = [NoUsage EXCEPT !.kind = kind, !.result = result]]
     IN IF kind = "VIDEO" /\ limits.videosPerMonth = 0
        THEN usage' = answer("denied")
        ELSE IF kind = "AUTOPOST" /\ ~limits.autoposting /\ ~account.autopostAddon
        THEN usage' = answer("denied")
        ELSE IF kind = "AUTOPOST" /\ ~(account.plan = "STARTER" /\ account.autopostAddon)
        THEN usage' = [usage EXCEPT ![c] = [NoUsage EXCEPT !.pc = "allowed", !.kind = kind,
                                                            !.result = "allowed"]]
        ELSE usage' = [usage EXCEPT ![c] = [NoUsage EXCEPT !.pc = "check", !.kind = kind]]
  /\ UNCHANGED <<bulk, postingRule, now, socialConnection, publishingProfile, contentItem, scheduleItem,
                 nextId, created, sched, cancel, jobs, dispatched, calls, auditEvent,
                 account, usageCounter>>

\* usageTracking.ts 9-38: getUsageCounter reads the account and its counter; called
\* by the check, and by increment*Usage of a request whose check was allowed
GetUsageCounter(c) ==
  /\ usage[c].pc \in {"check", "allowed"}
  /\ IF account.currentPeriodStart = NoDate \/ account.currentPeriodEnd = NoDate
     THEN usage' = [usage EXCEPT ![c] = [NoUsage EXCEPT !.kind = usage[c].kind, !.result = BillingNotSet]]
     ELSE IF CounterMatches(account, usageCounter)
     THEN usage' = Returned(c, usageCounter)
     ELSE usage' = [usage EXCEPT ![c].pc = IF usage[c].pc = "check" THEN "checkUpsert" ELSE "incUpsert",
                                 ![c].periodStart = account.currentPeriodStart,
                                 ![c].periodEnd = account.currentPeriodEnd]
  /\ UNCHANGED <<bulk, postingRule, now, socialConnection, publishingProfile, contentItem, scheduleItem,
                 nextId, created, sched, cancel, jobs, dispatched, calls, count, auditEvent,
                 account, usageCounter>>

\* usageTracking.ts 40-58: the upsert of getUsageCounter
GetUsageCounterUpsert(c) ==
  /\ usage[c].pc \in {"checkUpsert", "incUpsert"}
  /\ usageCounter' = Upsert(usageCounter, usage[c].periodStart, usage[c].periodEnd)
  /\ usage' = Returned(c, usageCounter')
  /\ UNCHANGED <<bulk, postingRule, now, socialConnection, publishingProfile, contentItem, scheduleItem,
                 nextId, created, sched, cancel, jobs, dispatched, calls, count, auditEvent,
                 account>>

\* usageTracking.ts 175-178, 187-190, 199-202: update ... increment: 1
IncrementUsage(c) ==
  /\ usage[c].pc = "update"
  /\ usageCounter' =
       IF usage[c].kind = "STATIC" THEN [usageCounter EXCEPT !.staticUsed = @ + 1]
       ELSE IF usage[c].kind = "VIDEO" THEN [usageCounter EXCEPT !.videoUsed = @ + 1]
       ELSE [usageCounter EXCEPT !.autopostUsed = @ + 1]
  /\ usage' = [usage EXCEPT ![c] = [NoUsage EXCEPT !.kind = usage[c].kind, !.result = "done"]]
  /\ UNCHANGED <<bulk, postingRule, now, socialConnection, publishingProfile, contentItem, scheduleItem,
                 nextId, created, sched, cancel, jobs, dispatched, calls, count, auditEvent,
                 account>>

\* part_004 541-558: handleSubscriptionUpdated writes the period of the subscription
SubscriptionUpdated(c, k) ==
  /\ count < MaxEvents
  /\ count' = count + 1
  /\ usage[c].pc = "idle"
  /\ account' = [account EXCEPT !.currentPeriodStart = PeriodStart(k),
                                !.currentPeriodEnd = PeriodEnd(k)]
  /\ usage' = [usage EXCEPT ![c] = [NoUsage EXCEPT !.pc = "subscription", !.kind = "SUBSCRIPTION",
                                     !.periodStart = PeriodStart(k), !.periodEnd = PeriodEnd(k)]]
  /\ UNCHANGED <<bulk, postingRule, now, socialConnection, publishingProfile, contentItem, scheduleItem,
                 nextId, created, sched, cancel, jobs, dispatched, calls, auditEvent,
                 usageCounter>>

\* part_004 560-571: the handler reads the counter and compares its periodStart
SubscriptionFindCounter(c) ==
  /\ usage[c].pc = "subscription"
  /\ IF usageCounter = NoCounter \/ usageCounter.periodStart # usage[c].periodStart
     THEN usage' = [usage EXCEPT ![c].pc = "reset"]
     ELSE usage' = [usage EXCEPT ![c] = [NoUsage EXCEPT !.kind = "SUBSCRIPTION", !.result = "done"]]
  /\ UNCHANGED <<bulk, postingRule, now, socialConnection, publishingProfile, contentItem, scheduleItem,
                 nextId, created, sched, cancel, jobs, dispatched, calls, count, auditEvent,
                 account, usageCounter>>

\* part_004 572-590: the handler's upsert
SubscriptionReset(c) ==
  /\ usage[c].pc = "reset"
  /\ usageCounter' = Upsert(usageCounter, usage[c].periodStart, usage[c].periodEnd)
  /\ usage' = [usage EXCEPT ![c] = [NoUsage EXCEPT !.kind = "SUBSCRIPTION", !.result = "done"]]
  /\ UNCHANGED <<bulk, postingRule, now, socialConnection, publishingProfile, contentItem, scheduleItem,
                 nextId, created, sched, cancel, jobs, dispatched, calls, count, auditEvent,
                 account>>

\* accounts with a subscription: any plan, with or without the auto-post add-on,
\* in billing period 1; and the seeded account, whose period was never set
QuotaAccountInputs ==
  {[SeedAccount EXCEPT !.plan = p, !.autopostAddon = a,
                       !.currentPeriodStart = PeriodStart(1), !.currentPeriodEnd = PeriodEnd(1)] :
     p \in DOMAIN PLAN_LIMITS, a \in BOOLEAN} \cup {SeedAccount}

\* the counter of an account: none, fresh, or one request short of every limit
\* of the plan, in the current period or in the one before
CounterInputs(acct) ==
  IF acct.currentPeriodStart = NoDate THEN {NoCounter}
  ELSE LET near == [id |-> 1,
                    staticUsed |-> Limit(acct.plan, "STATIC") - 1,
                    videoUsed |-> IF Limit(acct.plan, "VIDEO") = 0 THEN 0 ELSE Limit(acct.plan, "VIDEO") - 1,
                    autopostUsed |-> STARTER_AUTOPOST_CAP - 1,
                    periodStart |-> PeriodStart(1), periodEnd |-> PeriodEnd(1)]
       IN {NoCounter, Upsert(NoCounter, PeriodStart(1), PeriodEnd(1)), near,
           [near EXCEPT !.periodStart = PeriodStart(0), !.periodEnd = PeriodEnd(0)]}

InitQuota ==
  /\ now = 0
  /\ socialConnection = [p \in Platforms |->
        IF p = "FACEBOOK" THEN "test-fb-profile" ELSE "test-ig-profile"]
  /\ publishingProfile = [facebookProfileId |-> "test-fb-profile",
                          instagramProfileId |-> "test-ig-profile",
                          status |-> "VERIFIED", verifiedAt |-> TRUE]
  /\ contentItem = [c \in ContentIds |-> IF c = "c1" THEN "APPROVED" ELSE "DRAFT"]
  /\ scheduleItem = <<>>
  /\ nextId = 1
  /\ created = <<>>
  /\ sched = [r \in 1..2 |-> NoRequest]
  /\ cancel = NoCancel
  /\ jobs = <<>>
  /\ dispatched = [i \in ItemIds |-> [enqueued |-> 0, fired |-> 0]]
  /\ calls = <<>>
  /\ count = 0
  /\ auditEvent = EmptyBag
  /\ postingRule = PostingRule
  /\ account \in QuotaAccountInputs
  /\ usageCounter \in CounterInputs(account)
  /\ usage = [c \in Clients |-> NoUsage]
  /\ bulk = NoBulk

NextQuota ==
  \/ \E c \in Clients, kind \in Kinds : UsageCheck(c, kind)
  \/ \E c \in Clients : GetUsageCounter(c)
  \/ \E c \in Clients : GetUsageCounterUpsert(c)
  \/ \E c \in Clients : IncrementUsage(c)
  \/ \E c \in Clients, k \in Periods : SubscriptionUpdated(c, k)
  \/ \E c \in Clients : SubscriptionFindCounter(c)
  \/ \E c \in Clients : SubscriptionReset(c)

SpecQuota == InitQuota /\ [][NextQuota]_vars

\* ------------------------------------------- the scheduler on other accounts
\* accounts as POST /register and the subscription webhooks leave them: the seeded
\* one, one without the posting add-on, one on the Starter plan
AccountInputs ==
  {SeedAccount, [SeedAccount EXCEPT !.postingAddon = FALSE],
   [SeedAccount EXCEPT !.plan = "STARTER"]}

\* the SocialConnection rows and the PublishingProfile as /connect,
\* /verify-destinations and /disconnect leave them: both platforms verified, only
\* Facebook connected and verified, Facebook disconnected, nothing verified yet
DestinationInputs ==
  {[connection |-> [p \in Platforms |-> IF p = "FACEBOOK" THEN "test-fb-profile" ELSE "test-ig-profile"],
    profile |-> [facebookProfileId |-> "test-fb-profile", instagramProfileId |-> "test-ig-profile",
                 status |-> "VERIFIED", verifiedAt |-> TRUE]],
   [connection |-> [p \in Platforms |-> IF p = "FACEBOOK" THEN "test-fb-profile" ELSE NULL],
    profile |-> [facebookProfileId |-> "test-fb-profile", instagramProfileId |-> NULL,
                 status |-> "VERIFIED", verifiedAt |-> TRUE]],
   [connection |-> [p \in Platforms |-> IF p = "FACEBOOK" THEN "test-fb-profile" ELSE "test-ig-profile"],
    profile |-> [facebookProfileId |-> NULL, instagramProfileId |-> "test-ig-profile",
                 status |-> "NEEDS_RECONNECT", verifiedAt |-> TRUE]],
   [connection |-> [p \in Platforms |-> IF p = "FACEBOOK" THEN "test-fb-profile" ELSE "test-ig-profile"],
    profile |-> NoProfile]}

\* the PostingRule row as the seed or POST /rules leaves it, or none
RuleInputs == {NoRule, PostingRule}

\* the statuses of the content items: as seeded, or both approved
ContentInputs ==
  {[c \in ContentIds |-> IF c = "c1" THEN "APPROVED" ELSE "DRAFT"],
   [c \in ContentIds |-> "APPROVED"]}

InitScheduler ==
  /\ now = 0
  /\ \E d \in DestinationInputs :
       /\ socialConnection = d.connection
       /\ publishingProfile = d.profile
  /\ contentItem \in ContentInputs
  /\ scheduleItem = <<>>
  /\ nextId = 1
  /\ created = <<>>
  /\ sched = [r \in 1..2 |-> NoRequest]
  /\ cancel = NoCancel
  /\ jobs = <<>>
  /\ dispatched = [i \in ItemIds |-> [enqueued |-> 0, fired |-> 0]]
  /\ calls = <<>>
  /\ count = 0
  /\ auditEvent = EmptyBag
  /\ postingRule \in RuleInputs
  /\ account \in AccountInputs
  /\ usageCounter = NoCounter
  /\ usage = [c \in Clients |-> NoUsage]
  /\ bulk = NoBulk

NextScheduler ==
  \/ Tick
  \/ \E p \in Platforms : Disconnect(p)
  \/ \E r \in 1..2, ids \in RequestInputs : SchedVerify(r, ids)
  \/ \E r \in 1..2 : SchedLoad(r)
  \/ \E r \in 1..2 : SchedDeleteMany(r)
  \/ \E r \in 1..2, sinkOk \in BOOLEAN : SchedCommit(r, sinkOk)
  \/ \E ids \in RequestInputs : BulkDeleteItems(ids)
  \/ \E cascade \in BOOLEAN : BulkDeleteContent(cascade)

SpecScheduler == InitScheduler /\ [][NextScheduler]_vars

\* ----------------------------------- one scheduleContent call, on any rule
\* the rules POST /rules stores: at least one day of 1..7, a time window or
\* CUSTOM with a fixed time
SlotRuleInputs ==
  {[daysOfWeek |-> d, timeWindow |-> w.timeWindow, fixedTime |-> w.fixedTime] :
     d \in (SUBSET (1..7)) \ {{}},
     w \in {[timeWindow |-> "MORNING", fixedTime |-> NoDate],
            [timeWindow |-> "EVENING", fixedTime |-> NoDate],
            [timeWindow |-> "CUSTOM", fixedTime |-> TimeOfDay(14, 45)]}}

\* the verified profiles: both platforms, or Facebook only
ProfileInputs ==
  {d.profile : d \in {x \in DestinationInputs : x.profile.status = "VERIFIED"}}

\* a call that has passed steps 1 to 3, at any time of the clock, with no
\* startDate in its request or with one of the days 0..MaxTime
InitSlots ==
  /\ now \in 0..MaxTime
  /\ publishingProfile \in ProfileInputs
  /\ socialConnection = [p \in Platforms |-> ProfileIdFor(publishingProfile, p)]
  /\ contentItem \in ContentInputs
  /\ scheduleItem = <<>>
  /\ nextId = 1
  /\ created = <<>>
  /\ postingRule \in SlotRuleInputs
  /\ account \in {[SeedAccount EXCEPT !.timezone = z] : z \in Timezones}
  /\ \E startDate \in {NoDate} \cup {d * DayLen : d \in 0..MaxTime} :
       sched = [r \in 1..2 |->
                  IF r = 1
                  THEN [NoRequest EXCEPT
                          !.pc = "load", !.contentItemIds = ContentIds,
                          !.startDate = startDate, !.calledAt = now,
                          !.profile = [facebookProfileId |-> publishingProfile.facebookProfileId,
                                       instagramProfileId |-> publishingProfile.instagramProfileId],
                          !.postingRule = postingRule, !.timezone = account.timezone]
                  ELSE NoRequest]
  /\ cancel = NoCancel
  /\ jobs = <<>>
  /\ dispatched = [i \in ItemIds |-> [enqueued |-> 0, fired |-> 0]]
  /\ calls = <<>>
  /\ count = 1
  /\ auditEvent = EmptyBag
  /\ usageCounter = NoCounter
  /\ usage = [c \in Clients |-> NoUsage]
  /\ bulk = NoBulk

NextSlots ==
  \/ SchedLoad(1)
  \/ SchedDeleteMany(1)
  \/ \E sinkOk \in BOOLEAN : SchedCommit(1, sinkOk)

SpecSlots == InitSlots /\ [][NextSlots]_vars


\* ===================================================================== claims
JobsOf(id) == {j \in 1..Len(jobs) : jobs[j].scheduleItemId = id}
CallsOf(id) == {k \in 1..Len(calls) : calls[k].scheduleItemId = id}
HasAudit(eventType, id, error) ==
  \E e \in BagToSet(auditEvent) : e.eventType = eventType /\ e.entityId = id /\ e.error = error

\* C1: an execution that reads from the current PublishingProfile a destination id
\* different from S.providerProfileId never reaches createPost: every createPost
\* call, and every execution standing before it, read an id equal to the frozen one.
C1_NoCallOnMismatch ==
  /\ \A k \in 1..Len(calls) : calls[k].expected = created[calls[k].scheduleItemId]
  /\ \A j \in 1..Len(jobs) :
       jobs[j].pc = "post" => jobs[j].expectedProfileId = created[jobs[j].scheduleItemId]

\* C1 witness: a job whose three attempts all met a changed destination, and no
\* createPost call was made for its item.
C1_Witness ==
  \E j \in 1..Len(jobs) :
    /\ jobs[j].state = "failed"
    /\ jobs[j].attemptsMade = Attempts
    /\ jobs[j].failedReason = ProfileMismatch
    /\ CallsOf(jobs[j].scheduleItemId) = {}

\* C2: every createPost call for S carries as profileKey the providerProfileId
\* written into S at creation, whatever the live profile holds at that moment.
C2_CallUsesFrozenId ==
  \A k \in 1..Len(calls) : calls[k].profileKey = created[calls[k].scheduleItemId]

\* C2 witness: a call made after the profile changed between check and call.
C2_Witness ==
  \E k \in 1..Len(calls) : calls[k].live # calls[k].profileKey

\* C3: the providerProfileId of a stored ScheduleItem is the one it was created with.
C3_FrozenIdImmutable ==
  \A i \in DOMAIN scheduleItem : scheduleItem[i].providerProfileId = created[i]

\* C3 witness: an item whose outcome the worker recorded, or that was cancelled,
\* while the profile now holds another id for its platform.
C3_Witness ==
  \E i \in DOMAIN scheduleItem :
    /\ scheduleItem[i].status \in {"PUBLISHED", "FAILED", "CANCELLED"}
    /\ scheduleItem[i].providerProfileId # ProfileIdFor(publishingProfile, scheduleItem[i].platform)

C5_HandoffAfterCommit ==
  \A i \in DOMAIN scheduleItem :
    scheduleItem[i].status = "QUEUED" =>
      \E j \in 1..Len(jobs) :
        /\ jobs[j].jobId = JobKey(i)
        /\ (jobs[j].attemptsMade = 0 /\ jobs[j].state = "delayed"
              => jobs[j].fireAt >= scheduleItem[i].scheduledFor)

\* the step of job j ends an execution with the thrown error `reason`
EndsWith(j, reason) ==
  /\ j \in 1..Len(jobs)
  /\ jobs[j].state = "active"
  /\ jobs'[j].state # "active"
  /\ jobs'[j].failedReason = reason
  /\ jobs'[j].attemptsMade = jobs[j].attemptsMade + 1

\* C6: an execution that fails the destination-freshness check leaves S FAILED
\* with the destination-change message, and a POST_FAILED audit event.
C6_FreshnessFailureMarksFailed ==
  [][\A j \in DOMAIN jobs :
       (EndsWith(j, ProfileMismatch) /\ jobs[j].scheduleItemId \in DOMAIN scheduleItem')
         => /\ scheduleItem'[jobs[j].scheduleItemId].status = "FAILED"
            /\ scheduleItem'[jobs[j].scheduleItemId].errorMessage = ProfileMismatch
            /\ HasAudit("POST_FAILED", jobs[j].scheduleItemId, ProfileMismatch)']_vars

\* C7: an execution that fails the ownership check or the freshness check is
\* fatal: no createPost call, and the job is not kept for a retry.
C7_SecurityViolationNotRetried ==
  [][\A j \in DOMAIN jobs :
       (EndsWith(j, ProfileMismatch) \/ EndsWith(j, AccountMismatch))
         => /\ calls' = calls
            /\ jobs'[j].state = "failed"]_vars

C9_OneInFlightPerItem ==
  \A i \in ItemIds : Cardinality({j \in Active : jobs[j].scheduleItemId = i}) <= 1

\* C9 witness: two executions in flight at once, one of them a retry.
C9_Witness ==
  /\ Cardinality(Active) = 2
  /\ \E j \in Active : jobs[j].attemptsMade >= 1

\* C10: a job is attempted at most Attempts times; a failed attempt that leaves
\* attempts is retried no earlier than the exponential backoff after it; the attempt
\* that exhausts them on a provider error leaves S FAILED, and a failed job stays failed.
C10_RetryCeiling ==
  [][\A j \in DOMAIN jobs :
       /\ jobs[j].attemptsMade <= Attempts
       /\ Cardinality(CallsOf(jobs[j].scheduleItemId)) <= Attempts
       /\ (jobs[j].attemptsMade = Attempts => jobs[j].state \in {"failed", "completed"})
       /\ (jobs[j].state = "failed" => jobs'[j] = jobs[j])
       /\ (jobs[j].state = "active" /\ jobs'[j].state = "delayed"
             => jobs'[j].fireAt = now + BackoffDelay * Pow2(jobs[j].attemptsMade))
       /\ (jobs[j].state = "delayed" /\ jobs'[j].state = "active" => now >= jobs[j].fireAt)
       /\ (EndsWith(j, ProviderError) /\ jobs'[j].state = "failed"
             => scheduleItem'[jobs[j].scheduleItemId].status = "FAILED")]_vars

\* C10 witness: a job failed for good after three createPost calls that threw.
C10_Witness ==
  \E j \in 1..Len(jobs) :
    /\ jobs[j].state = "failed"
    /\ jobs[j].failedReason = ProviderError
    /\ Cardinality({k \in CallsOf(jobs[j].scheduleItemId) : calls[k].outcome = "throw"}) = Attempts

\* C11: once a ScheduleItem is CANCELLED and its job has not fired, the job never
\* fires, no createPost call is made for the item, and the item stays CANCELLED
\* for as long as its row exists.
C11_CancelStopsJob ==
  [][\A i \in DOMAIN scheduleItem :
       (scheduleItem[i].status = "CANCELLED" /\ dispatched[i].fired = 0)
         => /\ dispatched'[i].fired = 0
            /\ Cardinality(CallsOf(i))' = Cardinality(CallsOf(i))
            /\ (i \in DOMAIN scheduleItem' => scheduleItem'[i].status = "CANCELLED")]_vars

\* C12: a scheduleContent call for content that already has ScheduleItems passes
\* the APPROVED check; its transaction removes those items; and a job whose
\* ScheduleItem has been deleted never fires.
C12_RescheduleSupersedes ==
  [][/\ \A r \in DOMAIN sched :
          (/\ sched[r].pc = "load"
           /\ sched'[r].pc # "load"
           /\ \E i \in DOMAIN scheduleItem :
                 scheduleItem[i].contentItemId \in sched[r].contentItemIds)
            => sched'[r].pc = "commit"
     /\ \A r \in DOMAIN sched :
          (sched[r].pc = "commit" /\ sched'[r].result = "ok")
            => \A i \in DOMAIN scheduleItem \cap DOMAIN scheduleItem' :
                 scheduleItem[i].contentItemId \notin sched[r].contentItemIds
     /\ \A j \in DOMAIN jobs :
          (jobs[j].state = "delayed" /\ jobs'[j].state = "active")
            => jobs[j].scheduleItemId \in DOMAIN scheduleItem]_vars

\* C13 (as amended): scheduleContent checks, in this order, that the profile exists
\* and is VERIFIED, that a PostingRule exists, and that a requested content item is
\* APPROVED; it ends with the error of the first check that fails, and a call that
\* ends with an error changes no ScheduleItem and no ContentItem, so a call that
\* finds the profile not VERIFIED creates nothing.
C13_PreconditionOrder ==
  [][\A r \in DOMAIN sched :
       LET profileOk == publishingProfile # NoProfile /\ publishingProfile.status = "VERIFIED"
           ruleOk == postingRule # NoRule
           approved == \E c \in sched[r].contentItemIds : contentItem[c] = "APPROVED"
           failed == sched'[r] # sched[r] /\ sched'[r].result \notin {"none", "ok"}
       IN /\ (sched[r].pc = "idle" /\ sched'[r] # sched[r] /\ account.postingAddon)
               => /\ ~profileOk => sched'[r].result = NotVerified
                  /\ (profileOk /\ ~ruleOk) => sched'[r].result = NoRules
                  /\ (profileOk /\ ruleOk) => sched'[r].pc = "load"
          /\ (sched[r].pc = "load" /\ sched'[r] # sched[r])
               => IF approved THEN sched'[r].pc = "txn" ELSE sched'[r].result = NoApproved
          /\ failed => (scheduleItem' = scheduleItem /\ contentItem' = contentItem)]_vars

\* C13 witness: a call that met an unverified profile and a missing rule, and
\* ended with the error of the profile.
C13_Witness ==
  \E r \in DOMAIN sched :
    /\ sched[r].result = NotVerified
    /\ postingRule = NoRule
    /\ scheduleItem = <<>>

\* C13 as stated: no ScheduleItem is created in a state whose profile is not VERIFIED.
C13_NeverCreatedUnverified ==
  [][(DOMAIN scheduleItem' \ DOMAIN scheduleItem) # {}
       => publishingProfile.status = "VERIFIED"]_vars

\* C14: once no scheduleContent call is in progress, every content item has at
\* most one QUEUED ScheduleItem per platform.
C14_NoDoubleScheduling ==
  (\A r \in DOMAIN sched : sched[r].pc = "idle")
    => \A c \in ContentIds, p \in Platforms :
         Cardinality({i \in DOMAIN scheduleItem :
                        /\ scheduleItem[i].contentItemId = c
                        /\ scheduleItem[i].platform = p
                        /\ scheduleItem[i].status = "QUEUED"}) <= 1

\* C15: no usage counter is negative, and none exceeds the cap of the account's
\* plan (staticPostsPerMonth, videosPerMonth, and STARTER_AUTOPOST_CAP on Starter
\* with the add-on), every increment coming after a check that answered allowed.
C15_CountersWithinCaps ==
  /\ usageCounter.staticUsed >= 0
  /\ usageCounter.videoUsed >= 0
  /\ usageCounter.autopostUsed >= 0
  /\ usageCounter.staticUsed <= PLAN_LIMITS[account.plan].staticPostsPerMonth
  /\ usageCounter.videoUsed <= PLAN_LIMITS[account.plan].videosPerMonth
  /\ (account.plan = "STARTER" /\ account.autopostAddon)
        => usageCounter.autopostUsed <= STARTER_AUTOPOST_CAP

\* C16: scheduleContent stores ScheduleItems only for an account whose canAutopost
\* check answers allowed: the plan includes auto-posting or the account has the
\* add-on, and on Starter with the add-on the auto-post count is below its cap.
C16_NoWorkWhenDenied ==
  [][(DOMAIN scheduleItem' \ DOMAIN scheduleItem) # {}
       => /\ PLAN_LIMITS[account.plan].autoposting \/ account.autopostAddon
          /\ (account.plan = "STARTER" /\ account.autopostAddon)
                => usageCounter.autopostUsed < STARTER_AUTOPOST_CAP]_vars

\* C17: getUsageCounter returns the stored counter untouched when its period is
\* the account's; otherwise it returns the counter it created or reset, with
\* counts 0 and the period it read from the account; and while the stored counter
\* is the one of the account's period its counts never go down.
C17_CounterForCurrentPeriod ==
  [][/\ \A c \in Clients :
          /\ (usage[c].pc \in {"check", "allowed"} /\ usage'[c].pc \in {"allowed", "update"}
                 /\ usage'[c] # usage[c])
               => /\ CounterMatches(account, usageCounter)
                  /\ usageCounter' = usageCounter
                  /\ usage'[c].counter = usageCounter
          /\ (usage[c].pc \in {"checkUpsert", "incUpsert"} /\ usage'[c].pc \in {"allowed", "update"})
               => /\ usage'[c].counter = usageCounter'
                  /\ usageCounter'.staticUsed = 0
                  /\ usageCounter'.videoUsed = 0
                  /\ usageCounter'.autopostUsed = 0
                  /\ usageCounter'.periodStart = usage[c].periodStart
                  /\ usageCounter'.periodEnd = usage[c].periodEnd
     /\ (CounterMatches(account, usageCounter) /\ CounterMatches(account', usageCounter'))
          => /\ usageCounter'.staticUsed >= usageCounter.staticUsed
             /\ usageCounter'.videoUsed >= usageCounter.videoUsed
             /\ usageCounter'.autopostUsed >= usageCounter.autopostUsed]_vars

\* the step in which call r generates its slots and distributes the content
LoadStep(r) == sched[r].pc = "load" /\ sched'[r].pc = "txn"
\* the step in which the transaction of call r commits
CommitStep(r) == sched[r].pc = "commit" /\ sched'[r].result = "ok"
\* the ScheduleItems the step creates
NewItems == DOMAIN scheduleItem' \ DOMAIN scheduleItem
\* 1 = Monday ... 7 = Sunday of the day holding the local instant t
Weekday(t) == ((t \div DayLen) % 7) + 1
Min(a, b) == IF a <= b THEN a ELSE b

\* C18: every slot generateTimeSlots returns is strictly after the time of its
\* generation, and every ScheduleItem a call creates has scheduledFor strictly
\* after the time the call was made.
C18_SlotsStrictlyFuture ==
  [][\A r \in DOMAIN sched :
       /\ LoadStep(r) => \A k \in 1..Len(sched'[r].slots) : sched'[r].slots[k] > now
       /\ CommitStep(r) => \A i \in NewItems : scheduleItem'[i].scheduledFor > sched[r].calledAt]_vars

\* C18 witness: items stored by a call that started after the first slot of the
\* month had passed.
C18_Witness ==
  \E i \in DOMAIN scheduleItem :
    /\ created[i] # NULL
    /\ \E k \in 1..MaxTime : k < scheduleItem[i].scheduledFor /\ getDay(k) \in postingRule.daysOfWeek
    /\ \A j \in DOMAIN scheduleItem : scheduleItem[j].scheduledFor >= scheduleItem[i].scheduledFor

C20_SlotsRunOut ==
  [][\A r \in DOMAIN sched :
       /\ (sched[r].pc = "load" /\ sched'[r] # sched[r]
             /\ \E c \in sched[r].contentItemIds : contentItem[c] = "APPROVED")
            => LoadStep(r)
       /\ LoadStep(r) =>
            LET slots == sched'[r].slots
                plan == sched'[r].plan
                p == Cardinality({<<c, k>> \in ContentIds \X (1..Cardinality(Platforms)) :
                       /\ c \in sched[r].contentItemIds
                       /\ contentItem[c] = "APPROVED"
                       /\ k \in DOMAIN platformTargets[c]
                       /\ ProfileIdFor(sched[r].profile, platformTargets[c][k]) # NULL})
            IN /\ Len(plan) = Min(Len(slots), p)
               /\ \A i \in 1..Len(plan) : plan[i].scheduledFor = slots[i]
               /\ \A i \in 1..(Len(slots) - 1) : slots[i] < slots[i + 1]
       /\ (sched[r].pc = "commit" /\ sched'[r] # sched[r])
            => /\ CommitStep(r)
               /\ Cardinality(NewItems) = Len(sched[r].plan)
               /\ sched'[r].scheduled = Len(sched[r].plan)
               /\ {scheduleItem'[i].scheduledFor : i \in NewItems}
                    = {sched[r].plan[i].scheduledFor : i \in 1..Len(sched[r].plan)}]_vars

\* C20 witness: two content items on two platforms each and three slots: three
\* items stored, three reported, one pairing left without a slot.
C20_Witness ==
  /\ sched[1].result = "ok"
  /\ sched[1].scheduled = 3
  /\ Cardinality(DOMAIN scheduleItem) = 3
  /\ publishingProfile.instagramProfileId # NULL
  /\ \A c \in ContentIds : contentItem[c] = "SCHEDULED"

\* the ScheduleItems of content item c
ItemsOf(c) == {i \in DOMAIN scheduleItem : scheduleItem[i].contentItemId = c}
\* the audit events written by the step
NewEvents == {e \in BagToSet(auditEvent') : CopiesIn(e, auditEvent') > CopiesIn(e, auditEvent)}
\* the number of audit events of item id
EventsOf(id) ==
  LET rows == {e \in BagToSet(auditEvent) : e.entityId = id}
      RECURSIVE Sum(_)
      Sum(S) == IF S = {} THEN 0
                ELSE LET e == CHOOSE x \in S : TRUE IN CopiesIn(e, auditEvent) + Sum(S \ {e})
  IN Sum(rows)

\* C21: an execution of the worker that ends with an outcome recorded on its
\* ScheduleItem and writes its audit event writes the only event of that item,
\* POST_PUBLISHED or POST_FAILED, with the platform, the content id and, on
\* POST_FAILED, the error detail.
C21_OneAuditPerOutcome ==
  [][\A j \in DOMAIN jobs :
       LET id == jobs[j].scheduleItemId
       IN (jobs[j].pc \in {"flip", "audit", "catch"} /\ jobs'[j].pc = "none" /\ auditEvent' # auditEvent)
            => /\ EventsOf(id) = 0
               /\ \A e \in NewEvents :
                    /\ e.eventType \in PostEvents
                    /\ e.entityId = id
                    /\ e.platform = jobs[j].scheduleItem.platform
                    /\ e.contentId = jobs[j].scheduleItem.contentItemId
                    /\ e.eventType = "POST_FAILED" => e.error # NULL]_vars

\* C22: logAuditEvent never throws into its caller, whether the sink takes the
\* event or not: the worker's try block ends with the job completed and the
\* ScheduleItem as recorded, its catch block fails the job with the error it
\* caught, and the schedule and cancel requests answer with success.
C22_AuditFailureSwallowed ==
  [][/\ \A j \in DOMAIN jobs :
          LET id == jobs[j].scheduleItemId
          IN /\ (jobs[j].pc = "audit" /\ jobs'[j] # jobs[j])
                  => /\ jobs'[j].state = "completed"
                     /\ scheduleItem' = scheduleItem
             /\ (jobs[j].pc = "catch" /\ jobs'[j] # jobs[j] /\ id \in DOMAIN scheduleItem)
                  => /\ jobs'[j].failedReason = jobs[j].error
                     /\ scheduleItem'[id].status = "FAILED"
                     /\ scheduleItem'[id].errorMessage = jobs[j].error
     /\ \A r \in DOMAIN sched :
          (sched[r].pc = "commit" /\ sched'[r] # sched[r] /\ scheduleItem' # scheduleItem)
             => sched'[r].result = "ok"
     /\ (cancel.pc = "content" /\ cancel' # cancel /\ contentItem[cancel.contentItemId] # Deleted)
          => cancel'.result = "ok"]_vars

\* C22 witness: a job completed and its item PUBLISHED while the sink took no
\* event for it.
C22_Witness ==
  \E j \in DOMAIN jobs :
    /\ jobs[j].state = "completed"
    /\ jobs[j].scheduleItemId \in DOMAIN scheduleItem
    /\ scheduleItem[jobs[j].scheduleItemId].status = "PUBLISHED"
    /\ EventsOf(jobs[j].scheduleItemId) = 0

\* C23: the worker sets a ContentItem to PUBLISHED only when every one of its
\* ScheduleItems is PUBLISHED.
C23_PublishedOnlyWhenAll ==
  [][\A c \in ContentIds :
       (contentItem'[c] = "PUBLISHED" /\ contentItem[c] # "PUBLISHED")
          => \A i \in ItemsOf(c) : scheduleItem[i].status = "PUBLISHED"]_vars

\* C24: the update the worker makes after the provider call leaves the item
\* PUBLISHED with the provider's job id when the response reports success for the
\* platform, and FAILED with an error message otherwise (failure reported, no
\* result for the platform, error thrown).
C24_OutcomeRecorded ==
  [][\A j \in DOMAIN jobs :
       LET id == jobs[j].scheduleItemId
       IN /\ (jobs[j].pc = "record" /\ jobs'[j].pc = "finalize")
               => IF jobs[j].response.status = "success"
                  THEN /\ scheduleItem'[id].status = "PUBLISHED"
                       /\ scheduleItem'[id].providerJobId = jobs[j].response.id
                  ELSE /\ scheduleItem'[id].status = "FAILED"
                       /\ scheduleItem'[id].errorMessage # NULL
          /\ (jobs[j].pc = "catch" /\ jobs'[j].pc = "none" /\ id \in DOMAIN scheduleItem)
               => /\ scheduleItem'[id].status = "FAILED"
                  /\ scheduleItem'[id].errorMessage # NULL]_vars

\* C25: the deleteMany of a scheduleContent call shows to nobody before the
\* commit; the commit removes the old items, inserts every planned item and sets
\* the content of every inserted item to SCHEDULED in one step; and a call whose
\* transaction fails changes no ScheduleItem and no ContentItem.
C25_TransactionAtomic ==
  [][\A r \in DOMAIN sched :
       /\ (sched[r].pc = "txn" /\ sched'[r].pc = "commit")
            => scheduleItem' = scheduleItem /\ contentItem' = contentItem
       /\ (sched[r].pc = "commit" /\ sched'[r] # sched[r])
            => IF sched'[r].result = "ok"
               THEN /\ DOMAIN scheduleItem' \cap sched[r].deleted = {}
                    /\ Cardinality(NewItems) = Len(sched[r].plan)
                    /\ \A k \in 1..Len(sched[r].plan) :
                         \E i \in NewItems :
                           /\ scheduleItem'[i].contentItemId = sched[r].plan[k].contentItemId
                           /\ scheduleItem'[i].platform = sched[r].plan[k].platform
                           /\ scheduleItem'[i].scheduledFor = sched[r].plan[k].scheduledFor
                    /\ \A i \in NewItems : contentItem'[scheduleItem'[i].contentItemId] = "SCHEDULED"
               ELSE scheduleItem' = scheduleItem /\ contentItem' = contentItem]_vars

\* C25 witness: a call whose transaction failed on a content item deleted
\* meanwhile, with the items of its other content item still stored.
C25_Witness ==
  \E r \in DOMAIN sched :
    /\ sched[r].result = ForeignKeyFailed
    /\ \E c \in ContentIds : contentItem[c] = Deleted
    /\ \E i \in DOMAIN scheduleItem : scheduleItem[i].status = "QUEUED"

\* the calendar day of instant t on the clock of the timezone
LocalDay(t, timezone) == utcToZonedTime(t, timezone) \div DayLen

\* C26: a call with a startDate creates no ScheduleItem on a calendar day before
\* the day of startDate or after the last day of startDate's month.
C26_SlotsWithinRange ==
  [][\A r \in DOMAIN sched :
       (CommitStep(r) /\ sched[r].startDate # NoDate)
          => \A i \in NewItems :
               LET day == LocalDay(scheduleItem'[i].scheduledFor, sched[r].timezone)
               IN /\ day >= Min(sched[r].startDate \div DayLen,
                                LocalDay(sched[r].startDate, sched[r].timezone))
                  /\ day <= endOfMonth(sched[r].startDate) \div DayLen]_vars

C28_SkippedLeftUntouched ==
  [][\A r \in DOMAIN sched :
       (sched[r].pc = "commit" /\ sched'[r] # sched[r])
          => \A c \in sched[r].contentItemIds :
               (/\ contentItem[c] # "APPROVED"
                /\ \A k \in 1..Len(sched[r].plan) : sched[r].plan[k].contentItemId # c)
                 => /\ contentItem'[c] = contentItem[c]
                    /\ \A i \in ItemsOf(c) : i \in DOMAIN scheduleItem'
                                                /\ scheduleItem'[i] = scheduleItem[i]]_vars

\* C29: no step of the cancel request changes a PUBLISHED ScheduleItem to
\* CANCELLED or sets the ContentItem of a PUBLISHED ScheduleItem back to APPROVED.
C29_PublishedNotCancelled ==
  [][/\ \A i \in DOMAIN scheduleItem :
          (scheduleItem[i].status = "PUBLISHED" /\ i \in DOMAIN scheduleItem')
             => scheduleItem'[i].status # "CANCELLED"
     /\ (cancel.pc = "content" /\ cancel' # cancel)
          => \A i \in ItemsOf(cancel.contentItemId) :
               (scheduleItem[i].status = "PUBLISHED" /\ contentItem[cancel.contentItemId] # "APPROVED")
                  => contentItem'[cancel.contentItemId] # "APPROVED"]_vars

\* C30: an execution that finds its ScheduleItem gone ends there: the attempt
\* fails with 'Schedule item not found', the provider gets no call and no
\* ScheduleItem or ContentItem is created or changed.
C30_MissingItemNoEffect ==
  [][\A j \in DOMAIN jobs :
       (/\ jobs[j].pc = "load"
        /\ jobs[j].scheduleItemId \notin DOMAIN scheduleItem
        /\ jobs'[j] # jobs[j])
         => /\ jobs'[j].pc = "none"
            /\ jobs'[j].state \in {"delayed", "failed"}
            /\ jobs'[j].failedReason = ItemNotFound
            /\ calls' = calls
            /\ scheduleItem' = scheduleItem
            /\ contentItem' = contentItem]_vars

\* C30 witness: the job of an item deleted by a bulk delete, and the job of an
\* item deleted by a re-schedule, failed for good without a call.
C30_Witness ==
  \E j \in DOMAIN jobs :
    /\ jobs[j].state = "failed"
    /\ jobs[j].failedReason = ItemNotFound
    /\ jobs[j].scheduleItemId \notin DOMAIN scheduleItem
    /\ CallsOf(jobs[j].scheduleItemId) = {}

====
